---- MODULE Spec2Model ----
(***************************************************************************)
(* Model of the GPU scheduler (src/gpu-scheduler/scheduler.py):            *)
(* the annotation parser, the pod-index resolver, the node readiness       *)
(* check, the per-pod decision schedule_pod, the watch loop                *)
(* watch_unscheduled_pods and two instances deciding on the same pod;      *)
(* and of the application inside the scheduled pod                         *)
(* (src/gpu-scheduler-check/app.py), which sets CUDA_VISIBLE_DEVICES from  *)
(* the same annotation.                                                    *)
(*                                                                         *)
(* Python strings are modelled as sequences of one-character strings, so   *)
(* that strip/split/int/isdigit are computed character by character.       *)
(***************************************************************************)
EXTENDS Integers, Sequences, FiniteSets, TLC

VARIABLES
    pod,          \* the V1Pod handed to schedule_pod
    pc,           \* position inside schedule_pod
    gpu_mapping,  \* schedule_pod's local gpu_mapping
    pod_index,    \* schedule_pod's local pod_index: <<>> is None, <<i>> is i
    node_name,    \* schedule_pod's local node_name (a string)
    cuda_devices, \* schedule_pod's local cuda_devices
    nodes,        \* what list_node() answered in this decision
    ready,        \* what validate_node_exists returned: <<>> not called, <<b>>
    binds,        \* binding requests submitted in this decision, with the answer
    exit,         \* where schedule_pod returned, "" while running
    stored,       \* the pod object as the control plane holds it
    watch,        \* position of watch_unscheduled_pods and how it got there
    stream,       \* events the control plane emitted that the loop has not read
    emitted,      \* number of events the control plane emitted so far
    current,      \* the event the loop read last: <<>> or <<event>>
    rival,        \* a second instance of the scheduler deciding on the same pod
    sidecar       \* the gpu-scheduler-check application inside the pod

\* the watch loop's side of the state
loopvars == <<watch, stream, emitted, current>>

vars == <<pod, pc, gpu_mapping, pod_index, node_name, cuda_devices, nodes, ready, binds, exit,
          stored, watch, stream, emitted, current, rival, sidecar>>

\* ------------------------------------------------------------------------
\* Bounds of the model
\* ------------------------------------------------------------------------
MaxLines == 3
MaxNameLen == 4
MaxNodes == 2

\* ------------------------------------------------------------------------
\* Python string primitives
\* ------------------------------------------------------------------------
NL == "\n"

Digits == {"0", "1", "2", "3", "4", "5", "6", "7", "8", "9"}

Whitespace == {" ", NL, "\t"}

DigitVal(c) ==
    CASE c = "0" -> 0 [] c = "1" -> 1 [] c = "2" -> 2 [] c = "3" -> 3
      [] c = "4" -> 4 [] c = "5" -> 5 [] c = "6" -> 6 [] c = "7" -> 7
      [] c = "8" -> 8 [] c = "9" -> 9

\* An operator's argument is evaluated anew at each of its uses; the
\* primitives bind theirs with a quantifier over a one-element set, so that a
\* string is computed once however deep the calls nest.

\* c in str
Contains(str, c) == \E s \in {str} : \E i \in 1..Len(s) : s[i] = c

\* str.strip()
Strip(str) ==
    CHOOSE r \in
        { LET keep == {i \in 1..Len(s) : s[i] \notin Whitespace}
          IN  IF keep = {} THEN <<>>
              ELSE LET lo == CHOOSE i \in keep : \A j \in keep : i <= j
                       hi == CHOOSE i \in keep : \A j \in keep : j <= i
                   IN  SubSeq(s, lo, hi)
          : s \in {str} } : TRUE

\* the position of the first sep of s
FirstAt(s, sep) == CHOOSE i \in 1..Len(s) : s[i] = sep /\ \A j \in 1..(i-1) : s[j] # sep

\* str.split(sep): always at least one piece
RECURSIVE Split(_, _)
Split(str, sep) ==
    CHOOSE r \in
        { IF ~Contains(s, sep) THEN <<s>>
          ELSE <<SubSeq(s, 1, FirstAt(s, sep) - 1)>>
               \o Split(SubSeq(s, FirstAt(s, sep) + 1, Len(s)), sep)
          : s \in {str} } : TRUE

\* str.split(sep, 1) for a str that contains sep
SplitOnce(str, sep) ==
    CHOOSE r \in
        { <<SubSeq(s, 1, FirstAt(s, sep) - 1), SubSeq(s, FirstAt(s, sep) + 1, Len(s))>>
          : s \in {str} } : TRUE

\* str.isdigit()
IsDigit(str) == \E s \in {str} : Len(s) > 0 /\ \A i \in 1..Len(s) : s[i] \in Digits

\* value of a string of digits and underscores, base 10
RECURSIVE DecVal(_)
DecVal(str) ==
    CHOOSE r \in
        { IF s = <<>> THEN 0
          ELSE IF s[Len(s)] = "_" THEN DecVal(SubSeq(s, 1, Len(s) - 1))
          ELSE DecVal(SubSeq(s, 1, Len(s) - 1)) * 10 + DigitVal(s[Len(s)])
          : s \in {str} } : TRUE

\* the digits part of an int() literal: digits, single underscores between them
IsIntBody(str) ==
    \E b \in {str} :
        /\ Len(b) > 0
        /\ \A i \in 1..Len(b) : b[i] \in Digits \cup {"_"}
        /\ b[1] # "_" /\ b[Len(b)] # "_"
        /\ \A i \in 1..(Len(b) - 1) : ~(b[i] = "_" /\ b[i+1] = "_")

\* int(str) does not raise ValueError
IntOk(str) ==
    \E t \in {Strip(str)} :
        /\ Len(t) > 0
        /\ IF t[1] \in {"+", "-"} THEN IsIntBody(Tail(t)) ELSE IsIntBody(t)

\* int(str), for IntOk(str)
IntVal(str) ==
    CHOOSE r \in
        { IF t[1] = "-" THEN 0 - DecVal(Tail(t))
          ELSE IF t[1] = "+" THEN DecVal(Tail(t))
          ELSE DecVal(t)
          : t \in {Strip(str)} } : TRUE

\* ------------------------------------------------------------------------
\* parse_gpu_mapping
\* ------------------------------------------------------------------------
EmptyMapping == [k \in {} |-> [node |-> <<>>, devices |-> <<>>]]

\* mapping[pod_index] = (node_name, cuda_devices)
Put(mapping, k, e) ==
    CHOOSE r \in
        { [j \in (DOMAIN m) \cup {k} |-> IF j = k THEN e ELSE m[j]] : m \in {mapping} } : TRUE

\* the inner loop over device_parts: a part int() rejects is dropped
RECURSIVE ParseDeviceParts(_, _)
ParseDeviceParts(parts, at) ==
    IF at > Len(parts) THEN <<>>
    ELSE (IF IntOk(Strip(parts[at])) THEN <<IntVal(Strip(parts[at]))>> ELSE <<>>)
         \o ParseDeviceParts(parts, at + 1)

ParseDevices(cuda_devices_str) ==
    IF Strip(cuda_devices_str) = <<>> THEN <<>>
    ELSE CHOOSE r \in
            { ParseDeviceParts(device_parts, 1)
              : device_parts \in {Split(Strip(cuda_devices_str), ",")} } : TRUE

\* One pass of the body of `for line in lines`: "continue", "raise" (int() of
\* the index raised ValueError) or "put" with the entry stored.
ParseLine(raw) ==
    CHOOSE r \in
        { IF line = <<>> \/ ~Contains(line, "=") THEN [op |-> "continue"]
          ELSE LET pod_index_str == SplitOnce(line, "=")[1]
                   node_mapping  == SplitOnce(line, "=")[2]
               IN  IF ~IntOk(pod_index_str) THEN [op |-> "raise"]
                   ELSE IF ~Contains(node_mapping, ":") THEN [op |-> "continue"]
                   ELSE [op      |-> "put",
                         index   |-> IntVal(pod_index_str),
                         node    |-> Strip(SplitOnce(node_mapping, ":")[1]),
                         devices |-> ParseDevices(SplitOnce(node_mapping, ":")[2])]
          : line \in {Strip(raw)} } : TRUE

\* what the outer `except Exception` does with the ValueError of a line:
\* the loop is left and the mapping built so far is returned
OnLineError(lines, at, mapping) == mapping

\* the loop over lines, from position `at` on, with the mapping built so far
RECURSIVE ParseLines(_, _, _)
ParseLines(lines, at, mapping) ==
    IF at > Len(lines) THEN mapping
    ELSE CHOOSE res \in
            { CASE r.op = "continue" -> ParseLines(lines, at + 1, mapping)
                [] r.op = "raise"    -> OnLineError(lines, at, mapping)
                [] r.op = "put"      ->
                     ParseLines(lines, at + 1,
                                Put(mapping, r.index, [node |-> r.node, devices |-> r.devices]))
              : r \in {ParseLine(lines[at])} } : TRUE

parse_gpu_mapping(annotation_value) ==
    IF annotation_value = <<>> THEN EmptyMapping
    ELSE CHOOSE r \in
            { ParseLines(lines, 1, EmptyMapping)
              : lines \in {Split(Strip(annotation_value), NL)} } : TRUE

\* ------------------------------------------------------------------------
\* get_pod_index_from_name: <<>> is None
\* ------------------------------------------------------------------------
\* a resolver that scans the parts forwards: the first all-digits part wins
RECURSIVE ScanPartsForward(_, _)
ScanPartsForward(parts, at) ==
    LET first == Len(parts) - at + 1
    IN  IF at < 1 THEN <<>>
        ELSE IF IsDigit(parts[first]) THEN <<DecVal(parts[first])>>
        ELSE ScanPartsForward(parts, at - 1)

\* for part in reversed(parts): the first part, from the end, that isdigit()
RECURSIVE ScanParts(_, _)
ScanParts(parts, at) ==
    IF at < 1 THEN <<>>
    ELSE IF IsDigit(parts[at]) THEN <<DecVal(parts[at])>>
    ELSE ScanParts(parts, at - 1)

\* re.search(r'-(\d+)$', pod_name): $ also matches before one final newline
RegexSuffix(pod_name) ==
    LET body == IF Len(pod_name) > 0 /\ pod_name[Len(pod_name)] = NL
                THEN {pod_name, SubSeq(pod_name, 1, Len(pod_name) - 1)}
                ELSE {pod_name}
        hits == {<<b, i>> \in body \X (1..Len(pod_name)) :
                    /\ i <= Len(b) /\ b[i] = "-"
                    /\ IsDigit(SubSeq(b, i + 1, Len(b)))}
    IN  IF hits = {} THEN <<>>
        ELSE LET h == CHOOSE x \in hits : \A y \in hits : x[2] <= y[2]
             IN  <<DecVal(SubSeq(h[1], h[2] + 1, Len(h[1])))>>

get_pod_index_from_name(pod_name) ==
    LET scanned == IF Contains(pod_name, "-")
                   THEN ScanParts(Split(pod_name, "-"), Len(Split(pod_name, "-")))
                   ELSE <<>>
    IN  IF scanned # <<>> THEN scanned
        ELSE IF RegexSuffix(pod_name) # <<>> THEN RegexSuffix(pod_name)
        ELSE IF IsDigit(pod_name) THEN <<DecVal(pod_name)>>
        ELSE <<>>

\* ------------------------------------------------------------------------
\* validate_node_exists
\* ------------------------------------------------------------------------
\* a readiness scan that accepts a Ready condition whatever its status
NodeIsReadyAnyStatus(node) ==
    IF node.has_status /\ node.conditions # <<>>
    THEN \E i \in 1..Len(node.conditions) : node.conditions[i].type = "Ready"
    ELSE FALSE

\* the scan of one node's status.conditions
NodeIsReady(node) ==
    IF node.has_status /\ node.conditions # <<>>
    THEN \E i \in 1..Len(node.conditions) :
            node.conditions[i].type = "Ready" /\ node.conditions[i].status = "True"
    ELSE FALSE

\* a node scan that is content with the node being listed
ScanNodesByNameOnly(items, name) == \E i \in 1..Len(items) : items[i].name = name

\* the scan of nodes.items: the first node of that name decides
ScanNodes(items, name) ==
    LET hits == {i \in 1..Len(items) : items[i].name = name}
    IN  IF hits = {} THEN FALSE
        ELSE NodeIsReady(items[CHOOSE i \in hits : \A j \in hits : i <= j])

\* "True", "False", or "Exception" when list_node raised something that is
\* not an ApiException, which validate_node_exists does not catch
validate_node_exists(name, resp) ==
    CASE resp.kind = "items"        -> IF ScanNodes(resp.items, name) THEN "True" ELSE "False"
      [] resp.kind = "ApiException" -> "False"
      [] resp.kind = "Exception"    -> "Exception"

\* ------------------------------------------------------------------------
\* Inputs: pods, node lists and control-plane answers
\* ------------------------------------------------------------------------
\* an annotation line for each case of the grammar
ParseLexicon ==
    { <<"0", "=", "a", ":", "0">>,
      <<"0", "=", "b", ":", "1">>,
      <<"1", "=", "b", ":", "0", ",", "1">>,
      <<"x", "=", "a", ":", "0">>,
      <<"0", "=", "a">>,
      <<"a", ":", "0">>,
      <<"-", "1", "=", "a", ":", "0">>,
      <<"1", "=", "c", ":", "-", "2">>,
      <<" ", "1", " ", "=", " ", "b", " ", ":", " ", "x", ",", "3", " ">>,
      <<>> }

\* '\n'.join(ls)
RECURSIVE Join(_)
Join(ls) ==
    IF ls = <<>> THEN <<>>
    ELSE IF Len(ls) = 1 THEN ls[1]
    ELSE ls[1] \o <<NL>> \o Join(Tail(ls))

\* every annotation text of at most MaxLines lines of the lexicon
ParseTexts == {Join(ls) : ls \in UNION {[1..n -> ParseLexicon] : n \in 0..MaxLines}}

\* the annotation texts of the pods the pipeline is run on
PipeTexts ==
    { <<"2", "=", "c", ":", "4", ",", "5">>,
      <<"2", "=", "c", ":", "0">>,
      <<"5", "=", "a", ":", "0">>,
      <<"0", "=", "a", ":", "0", NL, "0", "=", "b", ":", "1">>,
      <<"0", "=", "a", ":", "0", NL, "x", "=", "a", ":", "0", NL, "0", "=", "b", ":", "1">>,
      <<>>,
      <<"j", "u", "n", "k">>,
      <<"0", "=", "a", ":", "0", NL, "1", "=", "b", ":", "2", NL, "2", "=", "c", ":", "0", ",", "1", ",", "2">>,
      <<"x", "=", "a", ":", "0", NL, "2", "=", "c", ":", "1">>,
      <<"-", "1", "=", "a", ":", "0", NL, "2", "=", "b", ":", "-", "1">> }

PipeNames ==
    { <<"w", "-", "2">>,
      <<"w", "-", "0">>,
      <<"w", "-", "1">>,
      <<"w">>,
      <<"0">> }

Namespaces == {"default", "gpu"}

\* self.scheduler_name and self.annotation_key
scheduler_name == "gpu-scheduler"

annotation_key == "gpu-scheduling-map"

CudaVar == "CUDA_VISIBLE_DEVICES"

\* spec.containers of the pods: the first container sets CUDA_VISIBLE_DEVICES
\* itself, the second has no env (None)
PodContainers ==
    << [env |-> << [name |-> "PATH", value |-> <<"/">>],
                   [name |-> CudaVar, value |-> <<"9">>] >>],
       [env |-> <<>>] >>

\* str(n) of an integer
RECURSIVE StrOfInt(_)
StrOfInt(n) ==
    IF n < 0 THEN <<"-">> \o StrOfInt(-n)
    ELSE IF n < 10 THEN <<CHOOSE c \in Digits : DigitVal(c) = n>>
    ELSE StrOfInt(n \div 10) \o <<CHOOSE c \in Digits : DigitVal(c) = n % 10>>

\* ','.join(map(str, cuda_devices))
RECURSIVE JoinDevices(_)
JoinDevices(devices) ==
    IF devices = <<>> THEN <<>>
    ELSE IF Len(devices) = 1 THEN StrOfInt(devices[1])
    ELSE StrOfInt(devices[1]) \o <<",">> \o JoinDevices(Tail(devices))

IsNotCudaVar(v) == v.name # CudaVar

\* lines 157-182: every container loses its CUDA_VISIBLE_DEVICES and gets
\* one that lists the devices
inject_cuda_env_var(p, devices) ==
    [p EXCEPT !.containers =
        [c \in DOMAIN p.containers |->
            [env |-> Append(SelectSeq(p.containers[c].env, IsNotCudaVar),
                            [name |-> CudaVar, value |-> JoinDevices(devices)])]]]

\* a pod object: metadata.name, metadata.namespace, metadata.annotations
\* restricted to the key gpu-scheduling-map (<<>> when the key is absent,
\* <<text>> when it is present), spec.scheduler_name (<<>> is None),
\* spec.node_name (<<>> is None) and spec.containers
PodsOf(names, namespaces, texts, schedulers) ==
    [name : names, namespace : namespaces, annotations : texts,
     scheduler_name : schedulers, node : {<<>>}, containers : {PodContainers}]

\* the pods schedule_pod is run on
PipePods ==
    PodsOf(PipeNames, Namespaces, {<<>>} \cup {<<t>> : t \in PipeTexts}, {<<scheduler_name>>})

\* pod names: every string of at most MaxNameLen characters over NameChars
NameChars == {"w", "0", "7", "-"}

AllNames == UNION {[1..n -> NameChars] : n \in 0..MaxNameLen}

NodeNames == {<<"a">>, <<"b">>, <<"c">>}

Cond(t, s) == [type |-> t, status |-> s]

\* status.conditions of a node; has_status FALSE is status None
NodeShapes ==
    { [has_status |-> FALSE, conditions |-> <<>>],
      [has_status |-> TRUE,  conditions |-> <<>>],
      [has_status |-> TRUE,  conditions |-> <<Cond("Ready", "True")>>],
      [has_status |-> TRUE,  conditions |-> <<Cond("Ready", "False")>>],
      [has_status |-> TRUE,  conditions |-> <<Cond("Ready", "Unknown")>>],
      [has_status |-> TRUE,  conditions |-> <<Cond("MemoryPressure", "True")>>],
      [has_status |-> TRUE,  conditions |-> <<Cond("MemoryPressure", "False"), Cond("Ready", "True")>>],
      [has_status |-> TRUE,  conditions |-> <<Cond("Ready", "False"), Cond("MemoryPressure", "True")>>] }

Nodes == {[name |-> n, has_status |-> s.has_status, conditions |-> s.conditions] :
            n \in NodeNames, s \in NodeShapes}

\* node lists of at most MaxNodes nodes; node names are unique in a cluster
NodeLists ==
    {l \in UNION {[1..n -> Nodes] : n \in 0..MaxNodes} :
        \A i, j \in 1..Len(l) : i # j => l[i].name # l[j].name}

\* what list_node() can answer: a list, an ApiException, another exception
ListNodeAnswers ==
    {[kind |-> "items", items |-> l] : l \in NodeLists}
    \cup {[kind |-> "ApiException", items |-> <<>>], [kind |-> "Exception", items |-> <<>>]}

NoAnswer == [kind |-> "none", items |-> <<>>]

\* what create_namespaced_pod_binding can answer: accepted, rejected with an
\* ApiException (a conflict), or a transport error
BindAnswers == {"ok", "ApiException", "Exception"}

\* ------------------------------------------------------------------------
\* schedule_pod
\* ------------------------------------------------------------------------
\* a rejected binding taken for a pod that is scheduled
HandlerConflictIsSuccess(kind) ==
    CASE kind = "ApiException" -> "scheduled"
      [] OTHER                 -> "unexpected_error"

\* schedule_pod with `except ApiException` alone: anything else leaves it
HandlerApiOnly(kind) ==
    CASE kind = "ApiException" -> "api_error"
      [] OTHER                 -> "raised"

\* the except clauses of schedule_pod: where an exception of that kind ends
Handler(kind) ==
    CASE kind = "ApiException" -> "api_error"
      [] OTHER                 -> "unexpected_error"

Return(where) ==
    /\ pc' = IF where = "raised" THEN "raised" ELSE "done"
    /\ exit' = where

\* lines 189-196
CheckAnnotation ==
    /\ pc = "start"
    /\ \/ /\ pod.annotations = <<>>
          /\ Return("no_annotation")
       \/ /\ pod.annotations # <<>>
          /\ pc' = "parse"
          /\ exit' = exit
    /\ UNCHANGED <<pod, gpu_mapping, pod_index, node_name, cuda_devices, nodes, ready, binds, stored, loopvars, rival, sidecar>>

\* lines 199-202
ParseMapping ==
    /\ pc = "parse"
    /\ gpu_mapping' = parse_gpu_mapping(pod.annotations[1])
    /\ \/ /\ DOMAIN gpu_mapping' = {}
          /\ Return("empty_mapping")
       \/ /\ DOMAIN gpu_mapping' # {}
          /\ pc' = "index"
          /\ exit' = exit
    /\ UNCHANGED <<pod, pod_index, node_name, cuda_devices, nodes, ready, binds, stored, loopvars, rival, sidecar>>

\* lines 205-208
ResolveIndex ==
    /\ pc = "index"
    /\ pod_index' = get_pod_index_from_name(pod.name)
    /\ \/ /\ pod_index' = <<>>
          /\ Return("no_index")
       \/ /\ pod_index' # <<>>
          /\ pc' = "lookup"
          /\ exit' = exit
    /\ UNCHANGED <<pod, gpu_mapping, node_name, cuda_devices, nodes, ready, binds, stored, loopvars, rival, sidecar>>

\* the lookup without the membership test: a missing index raises KeyError
LookupEntryUnchecked ==
    /\ pc = "lookup"
    /\ \/ /\ pod_index[1] \notin DOMAIN gpu_mapping
          /\ Return(Handler("Exception"))
          /\ UNCHANGED <<node_name, cuda_devices>>
       \/ /\ pod_index[1] \in DOMAIN gpu_mapping
          /\ node_name' = gpu_mapping[pod_index[1]].node
          /\ cuda_devices' = gpu_mapping[pod_index[1]].devices
          /\ pc' = "validate"
          /\ exit' = exit
    /\ UNCHANGED <<pod, gpu_mapping, pod_index, nodes, ready, binds, stored, loopvars, rival, sidecar>>

\* lines 211-215
LookupEntry ==
    /\ pc = "lookup"
    /\ \/ /\ pod_index[1] \notin DOMAIN gpu_mapping
          /\ Return("no_entry")
          /\ UNCHANGED <<node_name, cuda_devices>>
       \/ /\ pod_index[1] \in DOMAIN gpu_mapping
          /\ node_name' = gpu_mapping[pod_index[1]].node
          /\ cuda_devices' = gpu_mapping[pod_index[1]].devices
          /\ pc' = "validate"
          /\ exit' = exit
    /\ UNCHANGED <<pod, gpu_mapping, pod_index, nodes, ready, binds, stored, loopvars, rival, sidecar>>

\* the readiness check made but its result ignored
ValidateNodeIgnored ==
    /\ pc = "validate"
    /\ \E resp \in ListNodeAnswers :
          /\ nodes' = resp
          /\ LET v == validate_node_exists(node_name, resp)
             IN  \/ /\ v \in {"True", "False"}
                    /\ ready' = <<v = "True">>
                    /\ pc' = "bind"
                    /\ exit' = exit
                 \/ /\ v = "Exception"
                    /\ ready' = ready
                    /\ Return(Handler("Exception"))
    /\ UNCHANGED <<pod, gpu_mapping, pod_index, node_name, cuda_devices, binds, stored, loopvars, rival, sidecar>>

\* lines 218-220, with the list_node() call of validate_node_exists answered
\* by one of `answers`
ValidateFrom(answers) ==
    /\ pc = "validate"
    /\ \E resp \in answers :
          /\ nodes' = resp
          /\ LET v == validate_node_exists(node_name, resp)
             IN  \/ /\ v = "True"
                    /\ ready' = <<TRUE>>
                    /\ pc' = "bind"
                    /\ exit' = exit
                 \/ /\ v = "False"
                    /\ ready' = <<FALSE>>
                    /\ Return("node_unavailable")
                 \/ /\ v = "Exception"
                    /\ ready' = ready
                    /\ Return(Handler("Exception"))
    /\ UNCHANGED <<pod, gpu_mapping, pod_index, node_name, cuda_devices, binds, stored, loopvars, rival, sidecar>>

ValidateNode == ValidateFrom(ListNodeAnswers)

\* a binding that names the pod but not its namespace
BindingInDefaultNamespace(p, target) ==
    [name |-> p.name, namespace |-> "default", target |-> target]

\* the V1Binding of lines 227-239
Binding(p, target) == [name |-> p.name, namespace |-> p.namespace, target |-> target]

\* what the control plane does with a binding request for a pod whose
\* spec.nodeName is `holder`: it accepts the request for an unscheduled pod,
\* it rejects a request with an ApiException (always when the pod is bound:
\* a conflict), or the answer is lost in transport, the binding made or not
BindEffects(holder) ==
    { e \in [answer : BindAnswers, applied : BOOLEAN] :
        /\ e.answer = "ok" => (holder = <<>> /\ e.applied)
        /\ e.answer = "ApiException" => ~e.applied
        /\ e.applied => holder = <<>> }

\* a binding call that is made again when the control plane rejects it
SubmitBindRetrying ==
    /\ pc = "bind"
    /\ \E e \in BindEffects(stored.node) :
          /\ binds' = Append(binds, [request |-> Binding(pod, node_name), answer |-> e.answer,
                                     held |-> stored.node])
          /\ stored' = IF e.applied THEN [stored EXCEPT !.node = node_name] ELSE stored
          /\ \/ /\ e.answer = "ok"
                /\ Return("scheduled")
             \/ /\ e.answer = "ApiException"
                /\ UNCHANGED <<pc, exit>>
             \/ /\ e.answer = "Exception"
                /\ Return(Handler(e.answer))
    /\ UNCHANGED <<pod, gpu_mapping, pod_index, node_name, cuda_devices, nodes, ready, loopvars, rival, sidecar>>

\* a bind that first writes the devices into the pod's containers
SubmitBindInjecting ==
    /\ pc = "bind"
    /\ pod' = inject_cuda_env_var(pod, cuda_devices)
    /\ \E e \in BindEffects(stored.node) :
          /\ binds' = Append(binds, [request |-> Binding(pod, node_name), answer |-> e.answer,
                                     held |-> stored.node])
          /\ stored' = IF e.applied THEN [stored EXCEPT !.node = node_name] ELSE stored
          /\ \/ /\ e.answer = "ok"
                /\ Return("scheduled")
             \/ /\ e.answer # "ok"
                /\ Return(Handler(e.answer))
    /\ UNCHANGED <<gpu_mapping, pod_index, node_name, cuda_devices, nodes, ready, loopvars, rival, sidecar>>

\* lines 227-264
SubmitBind ==
    /\ pc = "bind"
    /\ \E e \in BindEffects(stored.node) :
          /\ binds' = Append(binds, [request |-> Binding(pod, node_name), answer |-> e.answer,
                                     held |-> stored.node])
          /\ stored' = IF e.applied THEN [stored EXCEPT !.node = node_name] ELSE stored
          /\ \/ /\ e.answer = "ok"
                /\ Return("scheduled")
             \/ /\ e.answer # "ok"
                /\ Return(Handler(e.answer))
    /\ UNCHANGED <<pod, gpu_mapping, pod_index, node_name, cuda_devices, nodes, ready, loopvars, rival, sidecar>>

\* schedule_pod's return value
Returned == exit = "scheduled"

\* the outcome of a decision, in the words of the decision pipeline: an
\* exception caught by schedule_pod's handlers abandons the decision at the
\* step that raised it
Outcome ==
    CASE exit = "no_annotation"    -> "no-op"
      [] exit = "empty_mapping"    -> "MappingEmpty"
      [] exit = "no_index"         -> "IndexUnresolved"
      [] exit = "no_entry"         -> "MappingMiss"
      [] exit = "node_unavailable" -> "NodeUnavailable"
      [] exit = "scheduled"        -> "success"
      [] exit \in {"api_error", "unexpected_error"} ->
            IF binds # <<>> THEN "BindFailed" ELSE "NodeUnavailable"
      [] OTHER                     -> "none"

\* the watch loop where schedule_pod is called from: streaming since its start
Subscribed == [state |-> "streaming", via |-> <<"disconnected">>, slept |-> 0,
               logged |-> 0, faults |-> 0, abandoned |-> FALSE]

RivalIdle == [pc |-> "idle", target |-> <<>>, binds |-> <<>>, exit |-> ""]

\* the sidecar before setup_cuda_devices: CUDA_VISIBLE_DEVICES is not set
SidecarStart == [pc |-> "start", read |-> FALSE, mapping |-> <<>>, index |-> <<>>, env |-> <<>>]

\* schedule_pod is studied on one call: the pod is unscheduled, the loop has
\* read its event, no other instance is at work
OneCall ==
    /\ stored = pod
    /\ watch = Subscribed
    /\ stream = <<>>
    /\ emitted = 0
    /\ current = <<>>
    /\ rival = RivalIdle
    /\ sidecar = SidecarStart

Idle ==
    /\ gpu_mapping = EmptyMapping
    /\ pod_index = <<>>
    /\ node_name = <<>>
    /\ cuda_devices = <<>>
    /\ nodes = NoAnswer
    /\ ready = <<>>
    /\ binds = <<>>
    /\ exit = ""

\* schedule_pod is entered with a pod of the event stream
Init ==
    /\ pod \in PipePods
    /\ pc = "start"
    /\ Idle
    /\ OneCall

Next ==
    \/ CheckAnnotation
    \/ ParseMapping
    \/ ResolveIndex
    \/ LookupEntry
    \/ ValidateNode
    \/ SubmitBind

Spec == Init /\ [][Next]_vars

\* parse_gpu_mapping alone, on every annotation text of ParseTexts
InitParse ==
    /\ pod \in PodsOf({<<"w", "-", "0">>}, {"default"}, {<<t>> : t \in ParseTexts},
                     {<<scheduler_name>>})
    /\ pc = "parse"
    /\ Idle
    /\ OneCall

NextParse == ParseMapping

SpecParse == InitParse /\ [][NextParse]_vars

\* get_pod_index_from_name alone, on every name of AllNames
InitIndex ==
    /\ pod \in PodsOf(AllNames, {"default"}, {<< <<"0", "=", "a", ":", "0">> >>},
                     {<<scheduler_name>>})
    /\ pc = "index"
    /\ gpu_mapping = parse_gpu_mapping(pod.annotations[1])
    /\ pod_index = <<>>
    /\ node_name = <<>>
    /\ cuda_devices = <<>>
    /\ nodes = NoAnswer
    /\ ready = <<>>
    /\ binds = <<>>
    /\ exit = ""
    /\ OneCall

NextIndex == ResolveIndex

SpecIndex == InitIndex /\ [][NextIndex]_vars

\* ------------------------------------------------------------------------
\* watch_unscheduled_pods
\* ------------------------------------------------------------------------
MaxEvents == 3

MaxFaults == 2

\* time.sleep(5)
BackoffSeconds == 5

EventTypes == {"ADDED", "MODIFIED", "DELETED"}

WatchNames == {<<"w", "-", "2">>, <<"w", "-", "0">>}

WatchTexts ==
    { <<>>,
      << <<"2", "=", "c", ":", "4", ",", "5">> >>,
      << <<"0", "=", "a", ":", "0", NL, "0", "=", "b", ":", "1">> >> }

\* spec.schedulerName of the watched pods: None, this scheduler, another one
WatchSchedulers == {<<>>, <<scheduler_name>>, <<"default-scheduler">>}

\* the pod the watched cluster holds
WatchPods == PodsOf(WatchNames, {"default"}, WatchTexts, WatchSchedulers)

\* what list_node() answers in the watched cluster
WatchNodeAnswers ==
    { [kind |-> "items", items |-> <<>>],
      [kind |-> "items", items |->
          << [name |-> <<"c">>, has_status |-> TRUE, conditions |-> <<Cond("Ready", "True")>>],
             [name |-> <<"b">>, has_status |-> TRUE, conditions |-> <<Cond("Ready", "True")>>] >>],
      [kind |-> "ApiException", items |-> <<>>],
      [kind |-> "Exception", items |-> <<>>] }

NoPod == <<>>

\* the stream without a field selector: every event of every pod
SelectedAll(type, p) == TRUE

\* field_selector="spec.nodeName=": the stream carries ADDED and MODIFIED
\* for a pod without a node, and DELETED when the pod has got one
Selected(type, p) ==
    IF type = "DELETED" THEN p.node # <<>> ELSE p.node = <<>>

\* the control plane emits an event into the open stream
Emit ==
    /\ watch.state = "streaming"
    /\ emitted < MaxEvents
    /\ \E type \in EventTypes :
          /\ Selected(type, stored)
          /\ stream' = Append(stream, [type |-> type, id |-> emitted + 1, object |-> stored])
    /\ emitted' = emitted + 1
    /\ UNCHANGED <<pod, pc, gpu_mapping, pod_index, node_name, cuda_devices, nodes, ready,
                   binds, exit, stored, watch, current, rival, sidecar>>

\* a scheduler that is not an instance of this program binds the pod
OtherBinds ==
    /\ watch.state # "disconnected"
    /\ stored.node = <<>>
    /\ \E n \in NodeNames : stored' = [stored EXCEPT !.node = n]
    /\ UNCHANGED <<pod, pc, gpu_mapping, pod_index, node_name, cuda_devices, nodes, ready,
                   binds, exit, loopvars, rival, sidecar>>

\* the filter without the test of the event type
MatchesAnyType(event) ==
    \/ event.object.scheduler_name = <<scheduler_name>>
    \/ /\ event.object.scheduler_name = <<>>
       /\ event.object.annotations # <<>>

\* lines 288-293: the event is for this scheduler
Matches(event) ==
    /\ event.type \in {"ADDED", "MODIFIED"}
    /\ \/ event.object.scheduler_name = <<scheduler_name>>
       \/ /\ event.object.scheduler_name = <<>>
          /\ event.object.annotations # <<>>

\* the loop is blocked in the iteration of the stream: no decision is running
Waiting ==
    /\ watch.state = "streaming"
    /\ pc \in {"idle", "done"}

\* an event read while a decision is running, as a handler per event would
ReadEventAtOnce ==
    /\ watch.state = "streaming"
    /\ stream # <<>>
    /\ LET event == Head(stream)
       IN  /\ current' = <<event>>
           /\ stream' = Tail(stream)
           /\ pod' = event.object
           /\ pc' = IF Matches(event) THEN "start" ELSE "idle"
    /\ gpu_mapping' = EmptyMapping
    /\ pod_index' = <<>>
    /\ node_name' = <<>>
    /\ cuda_devices' = <<>>
    /\ nodes' = NoAnswer
    /\ ready' = <<>>
    /\ binds' = <<>>
    /\ exit' = ""
    /\ watch' = [watch EXCEPT !.faults = 0,
                              !.abandoned = @ \/ (pc = "done" /\ exit = "node_unavailable")]
    /\ UNCHANGED <<stored, emitted, rival, sidecar>>

\* a loop that remembers the pod it gave up on and passes over its events
ReadEventOnce ==
    /\ Waiting
    /\ stream # <<>>
    /\ LET event == Head(stream)
           again == pc = "done" /\ exit = "node_unavailable" /\ event.object = pod
       IN  /\ current' = <<event>>
           /\ stream' = Tail(stream)
           /\ pod' = event.object
           /\ pc' = IF again THEN pc ELSE IF Matches(event) THEN "start" ELSE "idle"
           /\ gpu_mapping' = IF again THEN gpu_mapping ELSE EmptyMapping
           /\ pod_index' = IF again THEN pod_index ELSE <<>>
           /\ node_name' = IF again THEN node_name ELSE <<>>
           /\ cuda_devices' = IF again THEN cuda_devices ELSE <<>>
           /\ nodes' = IF again THEN nodes ELSE NoAnswer
           /\ ready' = IF again THEN ready ELSE <<>>
           /\ binds' = IF again THEN binds ELSE <<>>
           /\ exit' = IF again THEN exit ELSE ""
    /\ watch' = [watch EXCEPT !.faults = 0,
                              !.abandoned = @ \/ (pc = "done" /\ exit = "node_unavailable")]
    /\ UNCHANGED <<stored, emitted, rival, sidecar>>

\* lines 284-296: the loop reads the next event and, when it is for this
\* scheduler, calls schedule_pod with its pod
ReadEvent ==
    /\ Waiting
    /\ stream # <<>>
    /\ LET event == Head(stream)
       IN  /\ current' = <<event>>
           /\ stream' = Tail(stream)
           /\ pod' = event.object
           /\ pc' = IF Matches(event) THEN "start" ELSE "idle"
    /\ gpu_mapping' = EmptyMapping
    /\ pod_index' = <<>>
    /\ node_name' = <<>>
    /\ cuda_devices' = <<>>
    /\ nodes' = NoAnswer
    /\ ready' = <<>>
    /\ binds' = <<>>
    /\ exit' = ""
    /\ watch' = [watch EXCEPT !.faults = 0,
                              !.abandoned = @ \/ (pc = "done" /\ exit = "node_unavailable")]
    /\ UNCHANGED <<stored, emitted, rival, sidecar>>

\* the end of the stream handled like an exception
StreamTimeoutAsFault ==
    /\ Waiting
    /\ stream = <<>>
    /\ watch' = [state |-> "backoff", via |-> <<"backoff">>, slept |-> 0,
                 logged |-> 0, faults |-> 0, abandoned |-> watch.abandoned]
    /\ UNCHANGED <<pod, pc, gpu_mapping, pod_index, node_name, cuda_devices, nodes, ready,
                   binds, exit, stored, stream, emitted, current, rival, sidecar>>

\* timeout_seconds=60 expires: the stream ends, the for loop is left, the
\* while loop starts again
StreamTimeout ==
    /\ Waiting
    /\ stream = <<>>
    /\ watch' = [state |-> "reconnecting", via |-> <<"reconnecting">>, slept |-> 0,
                 logged |-> 0, faults |-> 0, abandoned |-> watch.abandoned]
    /\ UNCHANGED <<pod, pc, gpu_mapping, pod_index, node_name, cuda_devices, nodes, ready,
                   binds, exit, stored, stream, emitted, current, rival, sidecar>>

\* the loop without its try: an exception ends watch_unscheduled_pods
StreamFaultFatal ==
    /\ \/ Waiting /\ watch.faults < MaxFaults
       \/ pc = "raised"
    /\ watch' = [state |-> "stopped", via |-> <<"stopped">>, slept |-> 0,
                 logged |-> 0, faults |-> watch.faults, abandoned |-> watch.abandoned]
    /\ stream' = <<>>
    /\ pc' = IF pc = "raised" THEN "idle" ELSE pc
    /\ UNCHANGED <<pod, gpu_mapping, pod_index, node_name, cuda_devices, nodes, ready,
                   binds, exit, stored, emitted, current, rival, sidecar>>

\* lines 298-300: the iteration of the stream raises, or an exception leaves
\* the handling of an event; the events not read are lost, the error is
\* logged
StreamFault ==
    /\ \/ Waiting /\ watch.faults < MaxFaults
       \/ pc = "raised"
    /\ watch' = [state |-> "backoff", via |-> <<"backoff">>, slept |-> 0,
                 logged |-> 1,
                 faults |-> IF watch.faults < MaxFaults THEN watch.faults + 1 ELSE MaxFaults,
                 abandoned |-> watch.abandoned]
    /\ stream' = <<>>
    /\ pc' = IF pc = "raised" THEN "idle" ELSE pc
    /\ UNCHANGED <<pod, gpu_mapping, pod_index, node_name, cuda_devices, nodes, ready,
                   binds, exit, stored, emitted, current, rival, sidecar>>

\* a delay that doubles with every consecutive fault
BackoffDelayDoubling(faults) == IF faults <= 1 THEN BackoffSeconds ELSE 2 * BackoffSeconds

\* the delay before the stream is opened again after `faults` faults in a row
BackoffDelay(faults) == BackoffSeconds

\* line 301
Sleep ==
    /\ watch.state = "backoff"
    /\ watch' = [watch EXCEPT !.state = "reconnecting",
                              !.via = Append(@, "reconnecting"),
                              !.slept = @ + BackoffDelay(watch.faults)]
    /\ UNCHANGED <<pod, pc, gpu_mapping, pod_index, node_name, cuda_devices, nodes, ready,
                   binds, exit, stored, stream, emitted, current, rival, sidecar>>

\* lines 276-283: the stream is opened
Subscribe ==
    /\ watch.state \in {"disconnected", "reconnecting"}
    /\ watch' = [watch EXCEPT !.state = "streaming"]
    /\ UNCHANGED <<pod, pc, gpu_mapping, pod_index, node_name, cuda_devices, nodes, ready,
                   binds, exit, stored, stream, emitted, current, rival, sidecar>>

ValidateWatched == ValidateFrom(WatchNodeAnswers)

InitWatch ==
    /\ stored \in WatchPods
    /\ pod = NoPod
    /\ pc = "idle"
    /\ Idle
    /\ watch = [state |-> "disconnected", via |-> <<"disconnected">>, slept |-> 0,
                logged |-> 0, faults |-> 0, abandoned |-> FALSE]
    /\ stream = <<>>
    /\ emitted = 0
    /\ current = <<>>
    /\ rival = RivalIdle
    /\ sidecar = SidecarStart

\* the steps of the scheduler
LoopStep ==
    \/ Subscribe
    \/ ReadEvent
    \/ Sleep
    \/ CheckAnnotation
    \/ ParseMapping
    \/ ResolveIndex
    \/ LookupEntry
    \/ ValidateWatched
    \/ SubmitBind

NextWatch ==
    \/ LoopStep
    \/ Emit
    \/ OtherBinds
    \/ StreamTimeout
    \/ StreamFault

SpecWatch == InitWatch /\ [][NextWatch]_vars

\* the scheduler is a running thread: its next step is taken, a sleep ends
\* and a call to the control plane returns, with an answer or an exception
SpecWatchFair == SpecWatch /\ WF_vars(LoopStep)

\* ------------------------------------------------------------------------
\* a pod for which the control plane emits events again and again
\* ------------------------------------------------------------------------
RequeueTexts ==
    { << <<"2", "=", "c", ":", "4", ",", "5">> >>,
      << <<"0", "=", "a", ":", "0", NL, "0", "=", "b", ":", "1">> >> }

RequeuePods == PodsOf(WatchNames, {"default"}, RequeueTexts, {<<>>, <<scheduler_name>>})

\* the control plane emits a further event of the pod into the open stream:
\* the relist of a new subscription, a change of the pod; the event is not
\* numbered and at most one event is unread
Reemit ==
    /\ watch.state = "streaming"
    /\ stream = <<>>
    /\ \E type \in EventTypes :
          /\ Selected(type, stored)
          /\ stream' = <<[type |-> type, id |-> emitted, object |-> stored]>>
    /\ UNCHANGED <<pod, pc, gpu_mapping, pod_index, node_name, cuda_devices, nodes, ready,
                   binds, exit, stored, watch, emitted, current, rival, sidecar>>

InitRequeue ==
    /\ stored \in RequeuePods
    /\ pod = NoPod
    /\ pc = "idle"
    /\ Idle
    /\ watch = [state |-> "disconnected", via |-> <<"disconnected">>, slept |-> 0,
                logged |-> 0, faults |-> 0, abandoned |-> FALSE]
    /\ stream = <<>>
    /\ emitted = 0
    /\ current = <<>>
    /\ rival = RivalIdle
    /\ sidecar = SidecarStart

NextRequeue ==
    \/ LoopStep
    \/ Reemit
    \/ OtherBinds
    \/ StreamTimeout
    \/ StreamFault

SpecRequeue == InitRequeue /\ [][NextRequeue]_vars

\* the scheduler is a running thread, as in SpecWatchFair
SpecRequeueFair == SpecRequeue /\ WF_vars(LoopStep)

\* ------------------------------------------------------------------------
\* two instances of the scheduler deciding on the same pod
\* ------------------------------------------------------------------------
RaceTexts ==
    { << <<"2", "=", "c", ":", "4", ",", "5">> >>,
      << <<"0", "=", "a", ":", "0", NL, "0", "=", "b", ":", "1">> >>,
      << <<"5", "=", "a", ":", "0">> >> }

RacePods == PodsOf(WatchNames, Namespaces, RaceTexts, {<<scheduler_name>>})

\* lines 189-220 as one step: where schedule_pod returns before the bind
\* call ("" when it reaches the call) and the node it then binds to
DecisionOn(p, resp) ==
    IF p.annotations = <<>> THEN [exit |-> "no_annotation", target |-> <<>>]
    ELSE LET mapping == parse_gpu_mapping(p.annotations[1])
             index == get_pod_index_from_name(p.name)
         IN  IF DOMAIN mapping = {} THEN [exit |-> "empty_mapping", target |-> <<>>]
             ELSE IF index = <<>> THEN [exit |-> "no_index", target |-> <<>>]
             ELSE IF index[1] \notin DOMAIN mapping THEN [exit |-> "no_entry", target |-> <<>>]
             ELSE LET v == validate_node_exists(mapping[index[1]].node, resp)
                  IN  CASE v = "True"  -> [exit |-> "", target |-> mapping[index[1]].node]
                        [] v = "False" -> [exit |-> "node_unavailable", target |-> <<>>]
                        [] OTHER       -> [exit |-> Handler("Exception"), target |-> <<>>]

\* the other instance runs schedule_pod on its event of the pod, up to the
\* bind call
RivalDecide ==
    /\ rival.pc = "idle"
    /\ \E resp \in WatchNodeAnswers :
          LET d == DecisionOn([stored EXCEPT !.node = <<>>], resp)
          IN  rival' = [pc |-> IF d.exit = "" THEN "bind" ELSE "done",
                        target |-> d.target, binds |-> <<>>, exit |-> d.exit]
    /\ UNCHANGED <<pod, pc, gpu_mapping, pod_index, node_name, cuda_devices, nodes, ready,
                   binds, exit, stored, loopvars, sidecar>>

\* the other instance's bind call and its handlers, lines 227-264
RivalBind ==
    /\ rival.pc = "bind"
    /\ \E e \in BindEffects(stored.node) :
          /\ rival' = [rival EXCEPT
                          !.pc = "done",
                          !.binds = Append(@, [request |-> Binding(stored, rival.target),
                                               answer |-> e.answer, held |-> stored.node]),
                          !.exit = IF e.answer = "ok" THEN "scheduled" ELSE Handler(e.answer)]
          /\ stored' = IF e.applied THEN [stored EXCEPT !.node = rival.target] ELSE stored
    /\ UNCHANGED <<pod, pc, gpu_mapping, pod_index, node_name, cuda_devices, nodes, ready,
                   binds, exit, loopvars, sidecar>>

\* both instances have read an event of the same unscheduled pod
InitRace ==
    /\ pod \in RacePods
    /\ pc = "start"
    /\ Idle
    /\ OneCall

NextRace ==
    \/ CheckAnnotation
    \/ ParseMapping
    \/ ResolveIndex
    \/ LookupEntry
    \/ ValidateWatched
    \/ SubmitBind
    \/ RivalDecide
    \/ RivalBind

SpecRace == InitRace /\ [][NextRace]_vars

\* ------------------------------------------------------------------------
\* gpu-scheduler-check (app.py): the application inside the scheduled pod
\* that sets CUDA_VISIBLE_DEVICES from the same annotation
\* ------------------------------------------------------------------------
\* a resolver whose pattern is not anchored at the end of the name: the
\* first "-<digits>" of the name wins
app_get_pod_index_unanchored(pod_name) ==
    LET hits == {i \in 1..(Len(pod_name) - 1) :
                    pod_name[i] = "-" /\ pod_name[i + 1] \in Digits}
    IN  IF hits = {} THEN 0
        ELSE LET i == CHOOSE x \in hits : \A y \in hits : x <= y
                 e == CHOOSE x \in (i + 1)..Len(pod_name) :
                         /\ IsDigit(SubSeq(pod_name, i + 1, x))
                         /\ x = Len(pod_name) \/ pod_name[x + 1] \notin Digits
             IN  DecVal(SubSeq(pod_name, i + 1, e))

\* app.py get_pod_index_from_name: the regex alone, and 0 when it fails
app_get_pod_index_from_name(pod_name) ==
    IF RegexSuffix(pod_name) # <<>> THEN RegexSuffix(pod_name)[1] ELSE 0

\* One pass of the body of `for line in lines` of app.py: the entry stored
\* is the stripped device text, the node name is dropped.
app_ParseLine(raw) ==
    CHOOSE r \in
        { IF line = <<>> \/ ~Contains(line, "=") THEN [op |-> "continue"]
          ELSE LET pod_index_str == SplitOnce(line, "=")[1]
                   node_mapping  == SplitOnce(line, "=")[2]
               IN  IF ~IntOk(pod_index_str) THEN [op |-> "raise"]
                   ELSE IF ~Contains(node_mapping, ":") THEN [op |-> "continue"]
                   ELSE [op           |-> "put",
                         index        |-> IntVal(pod_index_str),
                         cuda_devices |-> Strip(SplitOnce(node_mapping, ":")[2])]
          : line \in {Strip(raw)} } : TRUE

\* the loop over lines of app.py; its `except Exception` leaves the loop and
\* the mapping built so far is returned
RECURSIVE app_ParseLines(_, _, _)
app_ParseLines(lines, at, mapping) ==
    IF at > Len(lines) THEN mapping
    ELSE CHOOSE res \in
            { CASE r.op = "continue" -> app_ParseLines(lines, at + 1, mapping)
                [] r.op = "raise"    -> mapping
                [] r.op = "put"      ->
                     app_ParseLines(lines, at + 1, Put(mapping, r.index, r.cuda_devices))
              : r \in {app_ParseLine(lines[at])} } : TRUE

app_parse_gpu_mapping(annotation_value) ==
    IF annotation_value = <<>> THEN <<>>
    ELSE CHOOSE r \in
            { app_ParseLines(lines, 1, <<>>)
              : lines \in {Split(Strip(annotation_value), NL)} } : TRUE

\* setup_cuda_devices: the pod is read from the control plane; a failure of
\* the configuration or of the read is logged and nothing is set
setup_cuda_devices ==
    /\ sidecar.pc = "start"
    /\ \/ sidecar' = [sidecar EXCEPT !.pc = "done"]
       \/ LET gpu_mapping_annotation ==
                  IF stored.annotations = <<>> THEN <<>> ELSE stored.annotations[1]
          IN  IF gpu_mapping_annotation = <<>>
              THEN sidecar' = [sidecar EXCEPT !.pc = "done", !.read = TRUE]
              ELSE \E m \in {app_parse_gpu_mapping(gpu_mapping_annotation)} :
                   \E i \in {app_get_pod_index_from_name(stored.name)} :
                       sidecar' = [pc      |-> "done",
                                   read    |-> TRUE,
                                   mapping |-> m,
                                   index   |-> <<i>>,
                                   env     |-> IF i \in DOMAIN m THEN <<m[i]>>
                                               ELSE sidecar.env]
    /\ UNCHANGED <<pod, pc, gpu_mapping, pod_index, node_name, cuda_devices, nodes, ready,
                   binds, exit, stored, loopvars, rival>>

\* the annotation of the name sweep: indices 0 and 7, the second one twice
AgreeSweepTexts ==
    { <<Join(<< <<"0", "=", "a", ":", "0">>,
                <<"7", "=", "b", ":", "1">>,
                <<"7", "=", "a", ":", " ", "0", ",", "1">> >>)>> }

AgreeNames == { <<"w", "-", "0">>, <<"w", "-", "1">> }

\* every name with one annotation, and two names with every annotation
AgreePods ==
    PodsOf(AllNames, {"default"}, AgreeSweepTexts, {<<scheduler_name>>})
    \cup PodsOf(AgreeNames, {"default"}, {<<>>} \cup {<<t>> : t \in ParseTexts},
                {<<scheduler_name>>})

\* one pod, decided on by the scheduler and set up by the sidecar
InitAgree ==
    /\ pod \in AgreePods
    /\ pc = "start"
    /\ Idle
    /\ OneCall

NextAgree ==
    \/ CheckAnnotation
    \/ ParseMapping
    \/ ResolveIndex
    \/ LookupEntry
    \/ setup_cuda_devices

SpecAgree == InitAgree /\ [][NextAgree]_vars

\* ------------------------------------------------------------------------
\* Vocabulary of the properties, stated on the inputs and not on the code
\* ------------------------------------------------------------------------
\* the node list holds a node of that name with a condition Ready = True
ListedReady(items, name) ==
    \E n \in {name} : \E i \in 1..Len(items) :
        /\ items[i].name = n
        /\ \E j \in 1..Len(items[i].conditions) :
              items[i].conditions[j] = Cond("Ready", "True")

\* the lines of an annotation text
LinesOf(text) == IF text = <<>> THEN <<>> ELSE Split(Strip(text), NL)

\* a line <index>=<node>:<deviceCSV> with an integer index
WellFormed(raw) ==
    /\ Contains(raw, "=")
    /\ IntOk(SplitOnce(Strip(raw), "=")[1])
    /\ Contains(SplitOnce(Strip(raw), "=")[2], ":")

IndexOfLine(raw) == IntVal(SplitOnce(Strip(raw), "=")[1])

NodeOfLine(raw) == Strip(SplitOnce(SplitOnce(Strip(raw), "=")[2], ":")[1])

\* the positions of the well-formed lines of a text that carry index i
LinesFor(text, i) ==
    {k \in 1..Len(LinesOf(text)) :
        WellFormed(LinesOf(text)[k]) /\ IndexOfLine(LinesOf(text)[k]) = i}

Last(S) == CHOOSE k \in S : \A j \in S : j <= k

\* the number a string of digits denotes
RECURSIVE Pow10(_)
Pow10(n) == IF n = 0 THEN 1 ELSE 10 * Pow10(n - 1)

RECURSIVE SumDigits(_, _)
SumDigits(s, at) ==
    IF at > Len(s) THEN 0
    ELSE DigitVal(s[at]) * Pow10(Len(s) - at) + SumDigits(s, at + 1)

\* the index a pod name denotes: its last all-digits token, else the whole
\* name when it is all digits, else none
NamedIndex(name) ==
    LET toks == Split(name, "-")
        D    == {i \in 1..Len(toks) : IsDigit(toks[i])}
    IN  IF D # {} THEN <<SumDigits(toks[Last(D)], 1)>>
        ELSE IF IsDigit(name) THEN <<SumDigits(name, 1)>>
        ELSE <<>>

\* the annotation text, the mapping and the index of the pod under decision
PodText == IF pod.annotations = <<>> THEN <<>> ELSE pod.annotations[1]

PodLines == LinesOf(PodText)

PodMapping == IF pod.annotations = <<>> THEN EmptyMapping
              ELSE parse_gpu_mapping(pod.annotations[1])

PodIndex == get_pod_index_from_name(pod.name)

HasEntry == PodIndex # <<>> /\ PodIndex[1] \in DOMAIN PodMapping

\* the node the annotation maps the pod's index to, for a pod that HasEntry
PodTarget == PodMapping[PodIndex[1]].node

Outcomes == {"no-op", "MappingEmpty", "IndexUnresolved", "MappingMiss",
             "NodeUnavailable", "BindFailed", "success"}

\* ------------------------------------------------------------------------
\* Properties
\* ------------------------------------------------------------------------
\* C1: a binding request is submitted only after validate_node_exists
\* returned true for its target node in the same decision: whenever a
\* request has been submitted, the readiness check of this decision was made
\* on the request's target, returned true, and the node list it read shows
\* that node Ready.
C1_BindOnlyAfterReady ==
    \A i \in 1..Len(binds) :
        /\ ready = <<TRUE>>
        /\ binds[i].request.target = node_name
        /\ nodes.kind = "items"
        /\ ListedReady(nodes.items, binds[i].request.target)

C1_Witness ==
    /\ pc = "done"
    /\ Len(binds) = 1
    /\ ready = <<TRUE>>

\* C2: for a pod that carries the annotation and whose resolved index has an
\* entry (N, devices) in the parsed mapping, when the node list shows N
\* ready and the control plane accepts the bind, the decision ends with
\* exactly one binding request, for the pod's name and namespace and with
\* target N, and returns success.
C2_ReadyNodeIsBound ==
    ( /\ pc = "done"
      /\ pod.annotations # <<>>
      /\ HasEntry
      /\ nodes.kind = "items"
      /\ ListedReady(nodes.items, PodTarget)
      /\ \A i \in 1..Len(binds) : binds[i].answer = "ok" )
    => /\ Len(binds) = 1
       /\ binds[1].request.name = pod.name
       /\ binds[1].request.namespace = pod.namespace
       /\ binds[1].request.target = PodTarget
       /\ exit = "scheduled"
       /\ Outcome = "success"

C2_Witness ==
    /\ pc = "done"
    /\ pod.name = <<"w", "-", "2">>
    /\ pod.annotations = << <<"2", "=", "c", ":", "4", ",", "5">> >>
    /\ exit = "scheduled"
    /\ binds = <<[request |-> [name |-> pod.name, namespace |-> pod.namespace,
                               target |-> <<"c">>],
                  answer |-> "ok", held |-> <<>>]>>

\* C3: when the node list has no node of the mapped name, or that node has
\* no Ready condition, or its Ready condition is not True, the decision
\* submits no binding request and ends with NodeUnavailable, returning
\* failure.
C3_UnreadyNodeIsNotBound ==
    ( /\ pc = "done"
      /\ HasEntry
      /\ nodes.kind = "items"
      /\ ~ListedReady(nodes.items, PodTarget) )
    => /\ binds = <<>>
       /\ exit = "node_unavailable"
       /\ Outcome = "NodeUnavailable"
       /\ ~Returned

C3_Witness ==
    /\ pc = "done"
    /\ pod.name = <<"w", "-", "2">>
    /\ pod.annotations = << <<"2", "=", "c", ":", "4", ",", "5">> >>
    /\ nodes.kind = "items"
    /\ \E i \in 1..Len(nodes.items) :
          /\ nodes.items[i].name = <<"c">>
          /\ nodes.items[i].conditions = <<Cond("Ready", "False")>>
    /\ exit = "node_unavailable"
    /\ binds = <<>>

\* C4: a pod without the annotation, with an empty parsed mapping, with an
\* unresolved index or with no entry for its index never has a binding
\* request submitted nor the node list queried, and its decision ends with
\* no-op, MappingEmpty, IndexUnresolved and MappingMiss respectively; a pod
\* of index 2 whose annotation maps only index 5 ends with MappingMiss.
C4_NoEntryNoBindNoQuery ==
    ~(pod.annotations # <<>> /\ HasEntry)
    => /\ binds = <<>>
       /\ nodes = NoAnswer
       /\ ready = <<>>
       /\ pc = "done" =>
            Outcome = (IF pod.annotations = <<>> THEN "no-op"
                       ELSE IF DOMAIN PodMapping = {} THEN "MappingEmpty"
                       ELSE IF PodIndex = <<>> THEN "IndexUnresolved"
                       ELSE "MappingMiss")

C4_Witness ==
    /\ pc = "done"
    /\ PodIndex = <<2>>
    /\ DOMAIN PodMapping = {5}
    /\ Outcome = "MappingMiss"
    /\ binds = <<>>
    /\ nodes = NoAnswer

\* C5: schedule_pod is total: whatever the pod and whatever the control
\* plane answers, no exception leaves schedule_pod, a decision that has not
\* returned can take its next step, and a decision that has returned has
\* one of the seven outcomes.
C5_Total ==
    /\ pc # "raised"
    /\ pc # "done" => ENABLED Next
    /\ pc = "done" => Outcome \in Outcomes

C5_Witness ==
    /\ pc = "done"
    /\ nodes.kind = "Exception"
    /\ exit = "unexpected_error"
    /\ binds = <<>>

\* C6: every well-formed line of the annotation, whether it comes before or
\* after a malformed one, has its index in the mapping parse_gpu_mapping
\* returned.
C6_EveryWellFormedLineParsed ==
    pc # "parse" =>
        \A k \in 1..Len(PodLines) :
            WellFormed(PodLines[k]) => IndexOfLine(PodLines[k]) \in DOMAIN gpu_mapping

\* C7: every mapping parse_gpu_mapping returns has only keys >= 0 and only
\* device ids >= 0.
C7_NonNegative ==
    \A i \in DOMAIN gpu_mapping :
        /\ i >= 0
        /\ \A d \in 1..Len(gpu_mapping[i].devices) : gpu_mapping[i].devices[d] >= 0

\* C8: when the annotation has several well-formed lines for an index, the
\* parsed mapping holds for that index the node of the last such line, and
\* a binding request for a pod of that index targets that node.
C8_LastLineWins ==
    pc \notin {"start", "parse"} =>
        \A i \in {IndexOfLine(PodLines[k]) : k \in {j \in 1..Len(PodLines) : WellFormed(PodLines[j])}} :
            Cardinality(LinesFor(PodText, i)) >= 2 =>
                LET last == PodLines[Last(LinesFor(PodText, i))]
                IN  /\ i \in DOMAIN gpu_mapping
                    /\ gpu_mapping[i].node = NodeOfLine(last)
                    /\ \A b \in 1..Len(binds) :
                          pod_index = <<i>> => binds[b].request.target = NodeOfLine(last)

\* C9: get_pod_index_from_name returns the value of the last
\* hyphen-separated token that is all digits; with no such token, the value
\* of the whole name when it is all digits; and None otherwise.
C9_IndexIsLastDigitToken ==
    pc # "index" => pod_index = NamedIndex(pod.name)

C9_Witness ==
    /\ pc = "lookup"
    /\ pod.name = <<"7", "-", "w">>
    /\ pod_index = <<7>>

\* C10: validate_node_exists returns true exactly when list_node answered a
\* node list that holds a node of the given name with a condition of type
\* Ready and status True.
C10_ReadyIffListedReady ==
    ready # <<>> =>
        (ready[1] <=> (nodes.kind = "items" /\ ListedReady(nodes.items, node_name)))

C10_Witness ==
    /\ ready = <<TRUE>>
    /\ \E i \in 1..Len(nodes.items) :
          /\ nodes.items[i].name = node_name
          /\ nodes.items[i].conditions =
                <<Cond("MemoryPressure", "False"), Cond("Ready", "True")>>

\* C11: any failure of the node-list query inside validate_node_exists, an
\* API error or a transport fault, makes validate_node_exists return false
\* instead of raising: the decision then ends at the readiness check.
C11_QueryFailureIsFalse ==
    nodes.kind \in {"ApiException", "Exception"} =>
        /\ ready = <<FALSE>>
        /\ exit = "node_unavailable"

\* the event is one the watch loop has to hand to schedule_pod: an ADDED or
\* MODIFIED event whose pod names this scheduler, or names no scheduler and
\* carries the annotation
ForThisScheduler(event) ==
    /\ event.type # "DELETED"
    /\ IF event.object.scheduler_name = <<>>
       THEN event.object.annotations # <<>>
       ELSE event.object.scheduler_name[1] = "gpu-scheduler"

\* C12: the watch loop calls schedule_pod for an event exactly when the
\* event is ADDED or MODIFIED and its pod names this scheduler or names no
\* scheduler and carries the annotation; a DELETED event and a pod of
\* another scheduler start no decision and no binding request is made for
\* them.
C12_ScheduledIffForThisScheduler ==
    /\ current # <<>> => ((pc # "idle") <=> ForThisScheduler(current[1]))
    /\ current = <<>> => pc = "idle"
    /\ binds # <<>> =>
          /\ ForThisScheduler(current[1])
          /\ \A b \in 1..Len(binds) :
                /\ binds[b].request.name = current[1].object.name
                /\ binds[b].request.namespace = current[1].object.namespace

C12_Witness ==
    /\ current # <<>>
    /\ current[1].type = "MODIFIED"
    /\ current[1].object.scheduler_name = <<>>
    /\ exit = "scheduled"

\* C13: within one instance decisions never overlap: the loop reads the next
\* event only when the decision on the event before has run to its end, so
\* that at most one decision, with at most one binding request, is under
\* way, it is the decision on the event read last, and events are read in
\* the order in which they arrived.
C13_OneDecisionAtATime ==
    /\ [](pc \notin {"idle", "done"} =>
            /\ current # <<>>
            /\ pod = current[1].object
            /\ Len(binds) = 0)
    /\ [][current' # current =>
            /\ pc \in {"idle", "done"}
            /\ current' = <<Head(stream)>>
            /\ \A i \in 1..Len(stream') : stream'[i].id > current'[1].id
            /\ current # <<>> => current'[1].id > current[1].id]_vars

C13_Witness ==
    /\ pc = "bind"
    /\ stream # <<>>
    /\ Head(stream).type \in {"ADDED", "MODIFIED"}
    /\ Head(stream).object = pod

\* C14: the watch loop has no terminal state: whatever events, stream
\* timeouts, stream faults and decision outcomes have occurred, the loop is
\* again in Streaming, waiting for the next event, at a later time.
C14_AlwaysStreamingAgain == []<>Waiting

C14_Witness ==
    /\ Waiting
    /\ watch.via = <<"backoff", "reconnecting">>
    /\ watch.faults = MaxFaults
    /\ exit = "unexpected_error"

\* C15: when the stream ends on its timeout, the loop goes from Streaming
\* to Reconnecting and back to Streaming without passing through Backoff:
\* it opens the stream again with no delay and logs no error.
C15_TimeoutResubscribesAtOnce ==
    /\ [](watch.via = <<"reconnecting">> =>
            /\ watch.state \in {"reconnecting", "streaming"}
            /\ watch.slept = 0
            /\ watch.logged = 0)
    /\ [][(watch.state = "streaming" /\ watch'.state # "streaming" /\ watch'.logged = 0) =>
            /\ watch'.state = "reconnecting"
            /\ watch'.via = <<"reconnecting">>]_vars
    /\ [][(watch.state = "reconnecting" /\ watch.via = <<"reconnecting">>) =>
            /\ watch'.state \in {"reconnecting", "streaming"}
            /\ watch'.via = watch.via]_vars

C15_Witness ==
    /\ watch.state = "streaming"
    /\ watch.via = <<"reconnecting">>
    /\ exit = "scheduled"

\* C16: after every fault of the stream the loop passes through Backoff
\* exactly once before it opens the stream again, and the delay is 5
\* seconds for every fault, however many faults occurred in a row; the
\* stream is never opened again after a fault without the delay.
C16_FixedBackoffAfterFault ==
    /\ [][(watch.state = "streaming" /\ watch'.state # "streaming" /\ watch'.logged = 1) =>
            /\ watch'.state = "backoff"
            /\ watch'.via = <<"backoff">>
            /\ watch'.slept = 0]_vars
    /\ [][watch.state = "backoff" =>
            \/ watch' = watch
            \/ /\ watch'.state = "reconnecting"
               /\ watch'.slept = 5]_vars
    /\ [](watch.via[1] = "backoff" /\ watch.state # "backoff" =>
            /\ watch.via = <<"backoff", "reconnecting">>
            /\ watch.state \in {"reconnecting", "streaming"}
            /\ watch.slept = 5
            /\ watch.logged = 1)

C16_Witness ==
    /\ watch.state = "streaming"
    /\ watch.via = <<"backoff", "reconnecting">>
    /\ watch.faults = MaxFaults
    /\ watch.slept = 5

\* C17: one call of schedule_pod submits at most one binding request; when
\* the control plane rejects it (a conflict) or the transport fails, the
\* call ends with BindFailed and the request is not submitted again.
C17_AtMostOneBindPerCall ==
    /\ Len(binds) <= 1
    /\ (binds # <<>> /\ binds[1].answer # "ok") =>
          /\ pc = "done"
          /\ exit \in {"api_error", "unexpected_error"}
          /\ ~Returned
          /\ Outcome = "BindFailed"

C17_Witness ==
    /\ Len(binds) = 1
    /\ binds[1].answer = "ApiException"
    /\ exit = "api_error"
    /\ stored.node = <<>>

\* C18 as stated: in every state in which schedule_pod starts, the pod it is
\* given has no node at the control plane, also after an earlier successful
\* bind of this scheduler and after a bind by another scheduler.
C18_StartsOnlyOnUnboundPod ==
    pc = "start" => stored.node = <<>>

\* C18: schedule_pod starts only on a pod whose event shows it without a
\* node, that is, a pod that had no node when the control plane emitted the
\* event; the pod may have been bound since, and then every binding request
\* of the decision is rejected and the pod keeps its node.
C18_UnboundWhenEmitted ==
    /\ [](pc # "idle" =>
            /\ pod.node = <<>>
            /\ pod = [stored EXCEPT !.node = <<>>])
    /\ [][(pc = "bind" /\ stored.node # <<>> /\ binds' # binds) =>
            /\ binds'[Len(binds')].answer # "ok"
            /\ stored' = stored
            /\ exit' \in {"api_error", "unexpected_error"}]_vars

C18_Witness ==
    /\ pc = "done"
    /\ pod.node = <<>>
    /\ Len(binds) = 1
    /\ binds[1].answer = "ApiException"
    /\ binds[1].request.target = <<"c">>
    /\ stored.node = <<"a">>

\* the control plane answered the request with an acceptance or a conflict
Arbitrated(b) ==
    \/ b.answer = "ok"
    \/ b.answer = "ApiException" /\ b.held # <<>>

\* C19: when two instances decide on the same unscheduled pod, under any
\* interleaving of their steps, the pod gets at most one node and keeps it;
\* when both submit a binding request and the control plane answers each
\* with an acceptance or a conflict, exactly one request is accepted, and
\* the other instance ends with BindFailed after its single request, the
\* pod staying on the node of the accepted request.
C19_OneWinner ==
    /\ [][stored.node # <<>> => stored' = stored]_vars
    /\ [](~(exit = "scheduled" /\ rival.exit = "scheduled"))
    /\ [](Len(binds) <= 1 /\ Len(rival.binds) <= 1)
    /\ []((/\ pc = "done" /\ rival.pc = "done"
           /\ binds # <<>> /\ rival.binds # <<>>
           /\ Arbitrated(binds[1]) /\ Arbitrated(rival.binds[1])) =>
             \/ /\ exit = "scheduled" /\ stored.node = binds[1].request.target
                /\ rival.exit = "api_error"
             \/ /\ rival.exit = "scheduled" /\ stored.node = rival.binds[1].request.target
                /\ exit = "api_error" /\ Outcome = "BindFailed")

C19_Witness ==
    /\ pc = "done"
    /\ rival.pc = "done"
    /\ rival.exit = "scheduled"
    /\ exit = "api_error"
    /\ Len(binds) = 1
    /\ binds[1].held = rival.target

\* the mapping without its device lists
NodesOf(mapping) == [i \in DOMAIN mapping |-> mapping[i].node]

\* the pods that differ from p at most in the device lists of their mapping
SameButDevices(p) ==
    CHOOSE r \in
        { {q \in PodsOf({p.name}, {p.namespace}, {<<t>> : t \in PipeTexts}, {<<scheduler_name>>}) :
              NodesOf(parse_gpu_mapping(q.annotations[1])) = n} :
          n \in {NodesOf(parse_gpu_mapping(p.annotations[1]))} } : TRUE

EventIsRead ==
    /\ stream # <<>>
    /\ stream' = Tail(stream)
    /\ watch'.state = "streaming"

\* list_node has not been asked in this decision, or its list shows the
\* node of the pod's entry Ready
NodeSeenReady ==
    \/ nodes.kind = "none"
    \/ nodes.kind = "items" /\ ListedReady(nodes.items, node_name)

\* C21: after a decision abandoned with NodeUnavailable the scheduler does
\* nothing for the pod until it reads a further event, and it keeps nothing
\* of the abandoned decision: the decision on the further event starts
\* afresh. When in a decision after the abandoned one the node list shows
\* the node Ready, the binding request is submitted, and the pod is bound
\* when the control plane accepts it. Hence, when events of the pod keep
\* arriving and reaching the readiness check as long as it has no node,
\* the node is from some time on always listed Ready and the control plane
\* answers the binding requests with an acceptance or a conflict, the pod
\* is eventually bound.
C21_ReconsideredOnNextEvent ==
    /\ [][(pc = "done" /\ exit = "node_unavailable" /\ ~EventIsRead) =>
            /\ pc' = pc /\ exit' = exit /\ binds' = binds
            /\ nodes' = nodes /\ ready' = ready]_vars
    /\ [][EventIsRead =>
            /\ gpu_mapping' = EmptyMapping /\ pod_index' = <<>> /\ node_name' = <<>>
            /\ cuda_devices' = <<>> /\ nodes' = NoAnswer /\ ready' = <<>>
            /\ binds' = <<>> /\ exit' = ""]_vars
    /\ []((watch.abandoned /\ nodes.kind = "items" /\ ListedReady(nodes.items, node_name)) =>
            \/ pc = "bind"
            \/ /\ Len(binds) = 1
               /\ binds[1].answer = "ok" => (exit = "scheduled" /\ stored.node = node_name))
    /\ ((/\ []<>(pc = "validate" \/ stored.node # <<>>)
         /\ <>[]NodeSeenReady
         /\ <>[](\A b \in 1..Len(binds) : Arbitrated(binds[b])))
            => <>(stored.node # <<>>))

C21_Witness ==
    /\ watch.abandoned
    /\ current # <<>>
    /\ current[1].type = "ADDED"
    /\ exit = "scheduled"
    /\ stored.node = node_name

\* the name ends in "-" followed by one or more digits
EndsInDashDigits(name) ==
    \E i \in 1..(Len(name) - 1) :
        /\ name[i] = "-"
        /\ \A j \in (i + 1)..Len(name) : name[j] \in Digits

\* the device text of a line <index>=<node>:<deviceCSV>
DevicesOfLine(raw) == Strip(SplitOnce(SplitOnce(Strip(raw), "=")[2], ":")[2])

\* C22: the sidecar and the scheduler agree on the annotation line of a pod.
\* For a pod name ending in "-<digits>" the scheduler always resolves an
\* index and it is the index the sidecar resolves; for every annotation text
\* the two parsers return mappings with the same set of indices; and when
\* the scheduler has taken a target node, the device text the sidecar puts
\* in CUDA_VISIBLE_DEVICES is that of a line of the annotation which carries
\* the resolved index and names that node, while the sidecar sets nothing
\* when the scheduler finds no entry.
C22_SidecarAgrees ==
    LET set_up == sidecar.pc = "done" /\ sidecar.read
    IN  /\ EndsInDashDigits(pod.name) =>
              /\ exit # "no_index"
              /\ (sidecar.index # <<>> /\ pod_index # <<>>) => pod_index = sidecar.index
        /\ (set_up /\ pc \notin {"start", "parse"}) =>
              DOMAIN gpu_mapping = DOMAIN sidecar.mapping
        /\ (EndsInDashDigits(pod.name) /\ set_up /\ pc = "validate") =>
              /\ sidecar.env # <<>>
              /\ \E k \in LinesFor(PodText, pod_index[1]) :
                    /\ NodeOfLine(LinesOf(PodText)[k]) = node_name
                    /\ DevicesOfLine(LinesOf(PodText)[k]) = sidecar.env[1]
        /\ (EndsInDashDigits(pod.name) /\ set_up /\ pc = "done") => sidecar.env = <<>>

\* index 0 is given twice: both sides take the second line
C22_Witness ==
    /\ pod.name = <<"w", "-", "0">>
    /\ pod.annotations = <<Join(<< <<"0", "=", "a", ":", "0">>, <<"0", "=", "b", ":", "1">> >>)>>
    /\ pc = "validate"
    /\ node_name = <<"b">>
    /\ sidecar.pc = "done"
    /\ sidecar.index = <<0>>
    /\ sidecar.env = << <<"1">> >>

====
